---- MODULE Spec2Model ----
(***************************************************************************)
(* Model of maxmsp/patterninverter.js: a Max [js] object with four inlets  *)
(* and two outlets that inverts or reverses a pattern value list.          *)
(*                                                                         *)
(* The script's globals are the state; each message handler (msg_int,      *)
(* list) is one action.  The transform functions are operators on a record *)
(* of the globals they read and write, translated loop by loop.            *)
(* JavaScript arrays are 0-based; they are modelled as sequences and read  *)
(* through Get (0-based index).                                            *)
(***************************************************************************)
EXTENDS Integers, Sequences, FiniteSets, TLC

(***************************************************************************)
(* Bounds of the model                                                     *)
(***************************************************************************)
\* longest enumerated value list arriving at inlet 0
MaxLen == 2

(***************************************************************************)
(* Program constants                                                       *)
(***************************************************************************)
matrixRow == 0
restValue == -1
full == 0
attack == 1
sustain == 2
release == 3
\* initial value of scaleLength
InitScaleLength == 7
\* initial value of maxPatternRange
InitMaxPatternRange == 15
\* the JavaScript value `undefined` (a read past the end of an array, a hole of
\* new Array(n)); a number outside every list the model sends
Undefined == -1000

\* envelopeInverseMap[full] = full, [attack] = release, [sustain] = sustain,
\* [release] = attack
envelopeInverseMap ==
    (full :> full) @@ (attack :> release) @@ (sustain :> sustain) @@ (release :> attack)

(***************************************************************************)
(* Inputs                                                                  *)
(***************************************************************************)
RECURSIVE SeqsUpTo(_, _)
SeqsUpTo(S, n) ==
    IF n = 0 THEN {<<>>}
    ELSE LET shorter == SeqsUpTo(S, n - 1)
         IN  shorter \cup {Append(s, x) : s \in {t \in shorter : Len(t) = n - 1}, x \in S}

\* pitch values sent: a rest, a negative non-rest, and a pitch far enough from it
\* that the inverse walk leaves 0 .. maxPatternRange-1 in both directions
PitchVals == {-2, restValue, 14}
ExamplePitches == <<5, 3, 7, -1, 2>>
ValueLists == SeqsUpTo(PitchVals, MaxLen) \cup {ExamplePitches}

\* sustain lists sent: none, one step, two steps, and a held note of three steps
ExampleEnvelope == <<attack, sustain, release>>
SustainLists == {<<>>, <<attack>>, <<release, full>>, ExampleEnvelope}

\* integers sent to inlet 2
ModeInputs == 0 .. 4
\* integers sent to inlet 3
ScaleInputs == {4}
Inlets == 0 .. 3

(***************************************************************************)
(* State                                                                   *)
(***************************************************************************)
VARIABLES
    sustainList,       \* global sustainList
    valueOut,          \* global valueOut
    sustainOut,        \* global sustainOut
    scaleLength,       \* global scaleLength
    updateMode,        \* global updateMode
    maxPatternRange,   \* global maxPatternRange
    requested,         \* the handler that ran last was list at inlet 0
    lastArgs,          \* the arguments of that call of list
    outlets,           \* the outlet(n, v) calls of that handler, in order
    thrown,            \* whether that handler threw
    inlet3Received,    \* history: an integer has arrived at inlet 3
    priorDiffers       \* history: that handler started from outputs of an earlier
                       \* call that differ from the ones it produced

vars == <<sustainList, valueOut, sustainOut, scaleLength, updateMode, maxPatternRange,
          requested, lastArgs, outlets, thrown, inlet3Received, priorDiffers>>

\* the globals the handlers read and write, as one record
Globals ==
    [sustainList |-> sustainList, valueOut |-> valueOut, sustainOut |-> sustainOut,
     scaleLength |-> scaleLength, updateMode |-> updateMode,
     maxPatternRange |-> maxPatternRange]

(***************************************************************************)
(* JavaScript array and number primitives                                  *)
(***************************************************************************)
\* arr[i]: undefined past the end
Get(arr, i) == IF 0 <= i /\ i < Len(arr) THEN arr[i + 1] ELSE Undefined

\* new Array(n): n holes
NewArray(n) == [k \in 1 .. n |-> Undefined]

\* arr[i] = v: the array grows (with holes) when i is past the end
ArraySet(arr, i, v) ==
    IF i < Len(arr) THEN [arr EXCEPT ![i + 1] = v]
    ELSE [k \in 1 .. (i + 1) |-> IF k <= Len(arr) THEN arr[k] ELSE IF k = i + 1 THEN v ELSE Undefined]

\* a % b of JavaScript for integers, b > 0: the result has the sign of a
JSRem(a, b) == IF a >= 0 THEN a % b ELSE -((-a) % b)

\* Array.prototype.reverse
Reverse(arr) == [k \in 1 .. Len(arr) |-> arr[Len(arr) + 1 - k]]

(***************************************************************************)
(* The transform functions.  Each takes the record of globals and the      *)
(* value list and returns the record after the call.                       *)
(***************************************************************************)
\* for (i = 0; i < sustainList.length; i++) sustainOut.push(i, matrixRow, sustainList[i])
\* (the same loop ends identity, noteReverse and inverse)
RECURSIVE copySustainLoop(_, _)
copySustainLoop(g, i) ==
    IF i < Len(g.sustainList)
    THEN copySustainLoop(
            [g EXCEPT !.sustainOut = @ \o <<i, matrixRow, Get(g.sustainList, i)>>], i + 1)
    ELSE g

\* for (i = 0; i < valueList.length; i++) valueOut[i] = valueList[i]
RECURSIVE identityCopyLoop(_, _, _)
identityCopyLoop(g, valueList, i) ==
    IF i < Len(valueList)
    THEN identityCopyLoop(
            [g EXCEPT !.valueOut = ArraySet(@, i, Get(valueList, i))], valueList, i + 1)
    ELSE g

\* identity with valueOut kept from the earlier call instead of re-created
identity_keepsValueOut(g, valueList) ==
    copySustainLoop(identityCopyLoop([g EXCEPT !.sustainOut = <<>>], valueList, 0), 0)

identity(g, valueList) ==
    LET g0 == [g EXCEPT !.valueOut = NewArray(Len(valueList)), !.sustainOut = <<>>]
    IN  copySustainLoop(identityCopyLoop(g0, valueList, 0), 0)

\* for (i = 0; i < valueOut.length; i++) valueOut[i] = restValue
RECURSIVE fillRestsLoop(_, _)
fillRestsLoop(g, i) ==
    IF i < Len(g.valueOut)
    THEN fillRestsLoop([g EXCEPT !.valueOut = ArraySet(@, i, restValue)], i + 1)
    ELSE g

\* the loop that collects enabledNotes and enabledIndexes: note >= 0 is enabled
RECURSIVE collectEnabledLoop(_, _, _)
collectEnabledLoop(valueList, acc, i) ==
    IF i < Len(valueList)
    THEN LET note == Get(valueList, i)
         IN  IF note >= 0
             THEN collectEnabledLoop(valueList,
                     [enabledNotes   |-> Append(acc.enabledNotes, note),
                      enabledIndexes |-> Append(acc.enabledIndexes, i)], i + 1)
             ELSE collectEnabledLoop(valueList, acc, i + 1)
    ELSE acc

\* for (i = 0; i < enabledNotes.length; i++) valueOut[enabledIndexes[i]] = enabledNotes[i]
RECURSIVE placeNotesLoop(_, _, _, _)
placeNotesLoop(g, enabledNotes, enabledIndexes, i) ==
    IF i < Len(enabledNotes)
    THEN placeNotesLoop(
            [g EXCEPT !.valueOut = ArraySet(@, Get(enabledIndexes, i), Get(enabledNotes, i))],
            enabledNotes, enabledIndexes, i + 1)
    ELSE g

noteReverse(g, valueList) ==
    LET g0  == [g EXCEPT !.valueOut = NewArray(Len(valueList)), !.sustainOut = <<>>]
        g1  == fillRestsLoop(g0, 0)
        en  == collectEnabledLoop(valueList, [enabledNotes |-> <<>>, enabledIndexes |-> <<>>], 0)
        g2  == placeNotesLoop(g1, en.enabledNotes, Reverse(en.enabledIndexes), 0)
    IN  copySustainLoop(g2, 0)

\* for (i = valueList.length - 1; i >= 0; i--) valueOut[i] = valueList[valueList.length - i - 1]
RECURSIVE reverseCopyLoop(_, _, _)
reverseCopyLoop(g, valueList, i) ==
    IF i >= 0
    THEN reverseCopyLoop(
            [g EXCEPT !.valueOut = ArraySet(@, i, Get(valueList, Len(valueList) - i - 1))],
            valueList, i - 1)
    ELSE g

\* for (i = sustainList.length - 1; i >= 0; i--) {
\*     currElem = sustainList[sustainList.length - i - 1];
\*     sustainOut.push(sustainList.length - i - 1, matrixRow, envelopeInverseMap[currElem]); }
RECURSIVE reverseSustainLoop(_, _)
reverseSustainLoop(g, i) ==
    IF i >= 0
    THEN LET currElem == Get(g.sustainList, Len(g.sustainList) - i - 1)
             swapped  == IF currElem \in DOMAIN envelopeInverseMap
                         THEN envelopeInverseMap[currElem] ELSE Undefined
         IN  reverseSustainLoop(
                [g EXCEPT !.sustainOut =
                    @ \o <<Len(g.sustainList) - i - 1, matrixRow, swapped>>], i - 1)
    ELSE g

trueReverse(g, valueList) ==
    LET g0 == [g EXCEPT !.valueOut = NewArray(Len(valueList)), !.sustainOut = <<>>]
        g1 == reverseCopyLoop(g0, valueList, Len(valueList) - 1)
    IN  reverseSustainLoop(g1, Len(g1.sustainList) - 1)

\* the loop that fills distanceList: a rest (== -1) pushes 0 and leaves prev,
\* any other value pushes prev - curr and becomes prev
RECURSIVE distanceLoop(_, _, _, _)
distanceLoop(valueList, distanceList, prev, i) ==
    IF i < Len(valueList)
    THEN LET curr == Get(valueList, i)
         IN  IF curr = -1
             THEN distanceLoop(valueList, Append(distanceList, 0), prev, i + 1)
             ELSE distanceLoop(valueList, Append(distanceList, prev - curr), curr, i + 1)
    ELSE distanceList

\* the loop that fills updatedList from distanceList
RECURSIVE updateLoop(_, _, _, _, _)
updateLoop(valueList, distanceList, updatedList, range, i) ==
    IF i < Len(distanceList)
    THEN IF Get(valueList, i) = -1
         THEN updateLoop(valueList, distanceList, Append(updatedList, -1), range, i + 1)
         ELSE updateLoop(valueList, distanceList,
                 Append(updatedList,
                        JSRem(Get(updatedList, i - 1) + Get(distanceList, i), range)),
                 range, i + 1)
    ELSE updatedList

\* for (i = 0; i < updatedList.length; i++) valueOut[i] = updatedList[i]
RECURSIVE copyUpdatedLoop(_, _, _)
copyUpdatedLoop(g, updatedList, i) ==
    IF i < Len(updatedList)
    THEN copyUpdatedLoop(
            [g EXCEPT !.valueOut = ArraySet(@, i, Get(updatedList, i))], updatedList, i + 1)
    ELSE g

\* returns [g |-> the globals after the call, ret |-> the returned updatedList]
inverse(g, valueList) ==
    LET g0           == [g EXCEPT !.valueOut = NewArray(Len(valueList)), !.sustainOut = <<>>]
        distanceList == distanceLoop(valueList, <<0>>, Get(valueList, 0), 1)
        updatedList  == updateLoop(valueList, distanceList, <<Get(valueList, 0)>>,
                                   g.maxPatternRange, 1)
        g1           == copyUpdatedLoop(g0, updatedList, 0)
    IN  [g |-> copySustainLoop(g1, 0), ret |-> updatedList]

\* reverseInverse handing trueReverse the original list instead of inverse's result
reverseInverse_reversesInput(g, valueList) ==
    trueReverse(inverse(g, valueList).g, valueList)

reverseInverse(g, valueList) ==
    LET r == inverse(g, valueList)
    IN  trueReverse(r.g, r.ret)

(***************************************************************************)
(* The message handlers                                                    *)
(***************************************************************************)
\* msg_int storing the integer of inlet 3 in maxPatternRange
msg_int_setsRange(g, inl, i) ==
    IF inl = 2 THEN [g EXCEPT !.updateMode = i]
    ELSE IF inl = 3 THEN [g EXCEPT !.maxPatternRange = i]
    ELSE g

msg_int(g, inl, i) ==
    IF inl = 2 THEN [g EXCEPT !.updateMode = i]
    ELSE IF inl = 3 THEN [g EXCEPT !.scaleLength = i]
    ELSE g

\* output sending the value list first
output_valuesFirst(g) ==
    <<[outlet |-> 0, msg |-> g.valueOut]>>
        \o (IF Len(g.sustainOut) > 0 THEN <<[outlet |-> 1, msg |-> g.sustainOut]>> ELSE <<>>)

\* the outlet calls of output(), in order
output(g) ==
    (IF Len(g.sustainOut) > 0 THEN <<[outlet |-> 1, msg |-> g.sustainOut]>> ELSE <<>>)
        \o <<[outlet |-> 0, msg |-> g.valueOut]>>

\* the branch of list on updateMode
transform(g, valueList) ==
    IF g.updateMode = 0 THEN identity(g, valueList)
    ELSE IF g.updateMode = 1 THEN noteReverse(g, valueList)
    ELSE IF g.updateMode = 2 THEN trueReverse(g, valueList)
    ELSE IF g.updateMode = 3 THEN inverse(g, valueList).g
    ELSE reverseInverse(g, valueList)

\* list without the check of sustainList
list_unchecked(g, inl, args) ==
    IF inl = 0
    THEN [g |-> transform(g, args), outlets |-> output(transform(g, args)), thrown |-> FALSE]
    ELSE IF inl = 1
    THEN [g |-> [g EXCEPT !.sustainList = args], outlets |-> <<>>, thrown |-> FALSE]
    ELSE [g |-> g, outlets |-> <<>>, thrown |-> FALSE]

\* returns [g |-> the globals after the call, outlets |-> its outlet calls,
\*          thrown |-> whether it threw "Sustain List has not been set"]
list(g, inl, args) ==
    IF inl = 0
    THEN IF Len(g.sustainList) <= 0
         THEN [g |-> g, outlets |-> <<>>, thrown |-> TRUE]
         ELSE LET g1 == transform(g, args)
              IN  [g |-> g1, outlets |-> output(g1), thrown |-> FALSE]
    ELSE IF inl = 1
    THEN [g |-> [g EXCEPT !.sustainList = args], outlets |-> <<>>, thrown |-> FALSE]
    ELSE [g |-> g, outlets |-> <<>>, thrown |-> FALSE]

(***************************************************************************)
(* Specification                                                           *)
(***************************************************************************)
Init ==
    /\ sustainList = <<>>
    /\ valueOut = <<>>
    /\ sustainOut = <<>>
    /\ scaleLength = InitScaleLength
    /\ updateMode = 0
    /\ maxPatternRange = InitMaxPatternRange
    /\ requested = FALSE
    /\ lastArgs = <<>>
    /\ outlets = <<>>
    /\ thrown = FALSE
    /\ inlet3Received = FALSE
    /\ priorDiffers = FALSE

SetGlobals(g) ==
    /\ sustainList' = g.sustainList
    /\ valueOut' = g.valueOut
    /\ sustainOut' = g.sustainOut
    /\ scaleLength' = g.scaleLength
    /\ updateMode' = g.updateMode
    /\ maxPatternRange' = g.maxPatternRange

\* the integers sent to each inlet
IntInputs(inl) == IF inl = 2 THEN ModeInputs ELSE ScaleInputs

\* the lists sent to each inlet
ListInputs(inl) ==
    IF inl = 0 THEN ValueLists ELSE IF inl = 1 THEN SustainLists ELSE {ExampleEnvelope}

\* an integer arrives at an inlet
MsgInt ==
    \E inl \in Inlets : \E i \in IntInputs(inl) :
        \E g \in {msg_int(Globals, inl, i)} :
            /\ SetGlobals(g)
            /\ requested' = FALSE
            /\ lastArgs' = <<>>
            /\ outlets' = <<>>
            /\ thrown' = FALSE
            /\ inlet3Received' = (inlet3Received \/ inl = 3)
            /\ priorDiffers' = FALSE

\* a list arrives at an inlet
List ==
    \E inl \in Inlets : \E args \in ListInputs(inl) :
        \E r \in {list(Globals, inl, args)} :
            /\ SetGlobals(r.g)
            /\ requested' = (inl = 0)
            /\ lastArgs' = IF inl = 0 THEN args ELSE <<>>
            /\ outlets' = r.outlets
            /\ thrown' = r.thrown
            /\ UNCHANGED inlet3Received
            /\ priorDiffers' = (/\ inl = 0
                                /\ ~r.thrown
                                /\ valueOut # <<>>
                                /\ sustainOut # <<>>
                                /\ valueOut # valueOut'
                                /\ sustainOut # sustainOut')

Next == MsgInt \/ List

Spec == Init /\ [][Next]_vars

(***************************************************************************)
(* Observations used by the properties                                     *)
(***************************************************************************)
\* the last handler was list at inlet 0 and it returned normally
Done == requested /\ ~thrown

\* the array sent to outlet n by the last handler (<<>> when none was sent)
Sent(n) ==
    LET at == {k \in 1 .. Len(outlets) : outlets[k].outlet = n}
    IN  IF at = {} THEN <<>> ELSE outlets[CHOOSE k \in at : TRUE].msg

\* the number of outlet calls of the last handler to outlet n
SentCount(n) == Cardinality({k \in 1 .. Len(outlets) : outlets[k].outlet = n})

\* entry k (0-based) of a sustain message: <<index, row, stage>>
Entry(msg, k) == <<msg[3 * k + 1], msg[3 * k + 2], msg[3 * k + 3]>>

\* the sub-sequence of values that are not the rest value
NonRests(seq) == SelectSeq(seq, LAMBDA v : v # restValue)

\* the positions (1-based) holding the rest value
RestPositions(seq) == {k \in 1 .. Len(seq) : seq[k] = restValue}

\* the last sounding input before position i (1-based, i >= 2): the first
\* element when nothing sounding lies in between
Cursor(P, i) ==
    LET js    == {j \in 1 .. (i - 1) : j = 1 \/ P[j] # restValue}
        jlast == CHOOSE j \in js : \A k \in js : k <= j
    IN  P[jlast]

\* output O re-applies the steps of input P, every sounding position after the
\* first being the previous output plus the step, wrapped modulo n
WalkWraps(P, O, n) ==
    /\ Len(O) = Len(P)
    /\ \A i \in 2 .. Len(P) :
          P[i] # restValue =>
              /\ (O[i] - (O[i - 1] + Cursor(P, i) - P[i])) % n = 0
              /\ -n < O[i]
              /\ O[i] < n

\* some sounding step of the walk of P left -(n-1) .. n-1 and was wrapped
WalkWrapped(P, O, n) ==
    \E i \in 2 .. Len(P) :
        /\ P[i] # restValue
        /\ O[i] # O[i - 1] + Cursor(P, i) - P[i]

\* the globals of a freshly loaded script holding the given sustain list and mode
FreshGlobals(sl, mode) ==
    [sustainList |-> sl, valueOut |-> <<>>, sustainOut |-> <<>>,
     scaleLength |-> InitScaleLength, updateMode |-> mode,
     maxPatternRange |-> InitMaxPatternRange]

(***************************************************************************)
(* Properties                                                              *)
(***************************************************************************)
\* C1: under TrueReverse (mode 2) the sustain entry sent with index i carries
\* envelopeInverseMap of the stored stage at position n-1-i.
C1_TrueReverseEnvelopeReversed ==
    (Done /\ updateMode = 2) =>
        LET n == Len(sustainList)
        IN  /\ Len(Sent(1)) = 3 * n
            /\ \A i \in 0 .. (n - 1) :
                  Entry(Sent(1), i) =
                      <<i, matrixRow, envelopeInverseMap[Get(sustainList, n - 1 - i)]>>

\* C2: under Inverse (mode 3) with a non-empty value list, every value sent is
\* the rest value or lies in 0 .. maxPatternRange-1.
C2_InverseInRange ==
    (Done /\ updateMode = 3 /\ lastArgs # <<>>) =>
        \A k \in 1 .. Len(Sent(0)) :
            \/ Sent(0)[k] = restValue
            \/ (0 <= Sent(0)[k] /\ Sent(0)[k] < maxPatternRange)

\* C3: under Inverse with maxPatternRange 15 the list 5 3 7 -1 2 is sent back
\* as 5 7 3 -1 8.
C3_InverseExample ==
    (Done /\ updateMode = 3 /\ maxPatternRange = 15 /\ lastArgs = ExamplePitches) =>
        Sent(0) = <<5, 7, 3, -1, 8>>

\* C4: under NoteReverse (mode 1) the rest positions of the list sent are those
\* of the input, and the non-rest values appear in reversed order.
C4_NoteReversePreservesRests ==
    (Done /\ updateMode = 1) =>
        /\ Len(Sent(0)) = Len(lastArgs)
        /\ RestPositions(Sent(0)) = RestPositions(lastArgs)
        /\ NonRests(Sent(0)) = Reverse(NonRests(lastArgs))

\* C5 as stated: once an integer n > 0 has arrived at inlet 3, Inverse wraps
\* its walk modulo n.
C5_ModuloFromInlet3 ==
    (Done /\ updateMode = 3 /\ lastArgs # <<>> /\ inlet3Received /\ scaleLength > 0) =>
        WalkWraps(lastArgs, Sent(0), scaleLength)

\* C5 amended: whatever has arrived at inlet 3, maxPatternRange keeps its
\* initial value 15 and Inverse wraps its walk modulo 15.
C5_ModuloStaysDefault ==
    /\ maxPatternRange = InitMaxPatternRange
    /\ (Done /\ updateMode = 3 /\ lastArgs # <<>>) =>
           WalkWraps(lastArgs, Sent(0), InitMaxPatternRange)

\* reached: an Inverse call after an integer at inlet 3 whose walk was wrapped
C5_Witness ==
    /\ Done /\ updateMode = 3 /\ lastArgs # <<>>
    /\ inlet3Received /\ scaleLength # InitMaxPatternRange
    /\ WalkWrapped(lastArgs, Sent(0), InitMaxPatternRange)

\* C6: a list at inlet 0 while sustainList is empty throws, sends nothing and
\* leaves every global as it was.
C6_MissingEnvelope ==
    [][(requested' /\ sustainList = <<>>) =>
          /\ thrown'
          /\ outlets' = <<>>
          /\ UNCHANGED <<sustainList, valueOut, sustainOut, scaleLength, updateMode,
                         maxPatternRange>>]_vars

\* reached: a call that threw while outputs of an earlier call were held
C6_Witness ==
    /\ requested /\ thrown /\ sustainList = <<>>
    /\ valueOut # <<>> /\ sustainOut # <<>> /\ updateMode # 0

\* C7: with a sustain list stored and mode 3 or 4, an empty value list fails and
\* nothing is sent.
C7_EmptyInputFails ==
    (requested /\ sustainList # <<>> /\ updateMode \in {3, 4} /\ lastArgs = <<>>) =>
        (thrown /\ outlets = <<>>)

\* C8: what ReverseInverse (mode 4) sends for a non-empty list equals what
\* TrueReverse sends for the list Inverse sends, the sustain list being the same.
C8_ReverseInverseComposes ==
    (Done /\ updateMode = 4 /\ lastArgs # <<>>) =>
        LET inv == list([Globals EXCEPT !.updateMode = 3], 0, lastArgs)
            rev == list([inv.g EXCEPT !.updateMode = 2], 0, inv.outlets[Len(inv.outlets)].msg)
        IN  outlets = rev.outlets

\* reached: a ReverseInverse call whose Inverse step changed the list
C8_Witness ==
    /\ Done /\ updateMode = 4 /\ Len(lastArgs) >= 2
    /\ Sent(0) # Reverse(lastArgs)
    /\ Len(sustainList) >= 2

\* C9: a list at inlet 0 either throws and sends nothing, or sends exactly one
\* sustain message to outlet 1 and then exactly one value message to outlet 0;
\* nothing else sends.
C9_EnvelopeThenPitch ==
    /\ requested =>
          \/ (thrown /\ outlets = <<>>)
          \/ (~thrown /\ Len(outlets) = 2
                /\ outlets[1].outlet = 1 /\ outlets[2].outlet = 0)
    /\ ~requested => outlets = <<>>

\* reached: a call that sent both messages
C9_Witness ==
    Done /\ SentCount(1) = 1 /\ SentCount(0) = 1 /\ Sent(0) # <<>>

\* C10: what a successful call sends is what a freshly loaded script holding
\* the same sustain list and mode sends for the same value list.
C10_OutputsDependOnCurrentInputsOnly ==
    Done => outlets = list(FreshGlobals(sustainList, updateMode), 0, lastArgs).outlets

\* reached: a successful call that started from different outputs of an
\* earlier call
C10_Witness ==
    Done /\ priorDiffers /\ lastArgs # <<>>

====
